---- MODULE Spec2Model ----
(***************************************************************************)
(* Related-list components of sf-sibling-related-list:                     *)
(*   RelatedList                 relatedList/relatedList.js                *)
(*   SiblingRelatedList (three revisions, relatedListDataTable.js)         *)
(* The pipeline modelled is prepareColumns -> relatedListFieldNames ->     *)
(* prepareDisplayRecords / composeDisplayRecords -> generateRecordUrl.     *)
(*                                                                         *)
(* JavaScript strings are sequences of one-character strings, so that      *)
(* concatenation, endsWith, substring and split are computed as the code   *)
(* computes them.  JavaScript values are tagged records.                   *)
(***************************************************************************)
EXTENDS Integers, Sequences, FiniteSets, TLC

(***************************************************************************)
(* Bounds of the model.                                                    *)
(***************************************************************************)
\* segments of a generated lookup path (before an optional ".Id" suffix)
MaxSegs == 2
\* levels of nested target nodes below a field wrapper of a generated record
MaxDepth == 1
\* entries of displayColumns in a generated metadata response
MaxCols == 2
\* records in a page delivered to handleGetRelatedListRecords
MaxRecords == 2
\* wire events delivered to one component instance
MaxEvents == 3
\* projections (handleGetRelatedListRecords executions) in flight at once
MaxInFlight == 2

(***************************************************************************)
(* JavaScript values.                                                      *)
(***************************************************************************)
Undefined == [t |-> "undefined"]
Null == [t |-> "null"]
Num(n) == [t |-> "number", n |-> n]
Bool(b) == [t |-> "boolean", b |-> b]
Str(s) == [t |-> "string", s |-> s]
\* a plain object: p maps property keys (strings) to values
Obj(p) == [t |-> "object", p |-> p]
\* an array: e is the sequence of its elements
Arr(e) == [t |-> "array", e |-> e]

\* the object with no own property
NoProps == [k \in {} |-> Undefined]
EmptyObj == Obj(NoProps)

\* ToBoolean
Truthy(v) ==
    CASE v.t = "undefined" -> FALSE
      [] v.t = "null" -> FALSE
      [] v.t = "number" -> v.n # 0
      [] v.t = "boolean" -> v.b
      [] v.t = "string" -> Len(v.s) > 0
      [] OTHER -> TRUE

Nullish(v) == v.t \in {"undefined", "null"}

\* Array.isArray
IsArray(v) == v.t = "array"

\* o[k] for a value o that is neither null nor undefined: an own property of
\* an object, undefined on a missing key and on the primitives of the model
GetProp(o, k) ==
    IF o.t = "object" /\ k \in DOMAIN o.p THEN o.p[k] ELSE Undefined

\* o[k] = v on an object
SetProp(o, k, v) ==
    Obj([x \in (DOMAIN o.p) \cup {k} |-> IF x = k THEN v ELSE o.p[x]])

(***************************************************************************)
(* Strings.                                                                *)
(***************************************************************************)
s_Id == <<"I", "d">>
s_DotId == <<".", "I", "d">>
s_Dot == <<".">>
\* the argument of split in generateRecordUrl: the JavaScript literal '\\.'
\* is the two characters backslash and dot
s_Separator == <<"\\", ".">>
s_resourceUrl == <<"-", "r", "e", "s", "o", "u", "r", "c", "e", "U", "r", "l">>
s_undefined == <<"u", "n", "d", "e", "f", "i", "n", "e", "d">>
s_null == <<"n", "u", "l", "l">>
s_empty == << >>
k_id == <<"i", "d">>
k_fields == <<"f", "i", "e", "l", "d", "s">>
k_value == <<"v", "a", "l", "u", "e">>
k_displayValue == <<"d", "i", "s", "p", "l", "a", "y", "V", "a", "l", "u", "e">>

\* String.prototype.endsWith
EndsWith(s, suffix) ==
    /\ Len(s) >= Len(suffix)
    /\ SubSeq(s, Len(s) - Len(suffix) + 1, Len(s)) = suffix

\* whether sep occurs in s at position i
MatchAt(s, sep, i) ==
    /\ i + Len(sep) - 1 <= Len(s)
    /\ SubSeq(s, i, i + Len(sep) - 1) = sep

\* String.prototype.split with a non-empty separator string: the pieces
\* between the occurrences of sep, scanned left to right
RECURSIVE SplitFrom(_, _, _, _)
SplitFrom(s, sep, start, i) ==
    IF i > Len(s) THEN << SubSeq(s, start, Len(s)) >>
    ELSE IF MatchAt(s, sep, i)
         THEN << SubSeq(s, start, i - 1) >>
                  \o SplitFrom(s, sep, i + Len(sep), i + Len(sep))
         ELSE SplitFrom(s, sep, start, i + 1)

Split(s, sep) == SplitFrom(s, sep, 1, 1)

\* the string a template literal `${v}` produces
ToStr(v) ==
    CASE v.t = "string" -> v.s
      [] v.t = "null" -> s_null
      [] OTHER -> s_undefined

(***************************************************************************)
(* The four components.  RelatedList is relatedList.js; the other three    *)
(* are the revisions of SiblingRelatedList in relatedListDataTable.js:     *)
(* SiblingCompose (lines 20-293, composeDisplayRecords, no flags),         *)
(* SiblingFlags (lines 300-837, loaded flags, hasError, moreLink) and      *)
(* SiblingMoreLink (lines 843-1275, moreLink, no flags).                   *)
(***************************************************************************)
Variants == {"RelatedList", "SiblingCompose", "SiblingFlags", "SiblingMoreLink"}

\* the revisions whose projector writes `... || ''` and has the textarea branch
UsesEmptyDefault(v) == v \in {"RelatedList", "SiblingFlags"}

\* the revisions whose path loop breaks on `currentVal === undefined`; the
\* other two break on `!currentVal`
BreaksOnUndefinedOnly(v) == v \in {"RelatedList", "SiblingFlags"}

\* the revisions that declare hasError and the loaded flags
HasFlags(v) == v \in {"RelatedList", "SiblingFlags"}

\* the revisions whose handleGetRecord requests the "view all" link
RequestsMoreLink(v) == v \in {"SiblingFlags", "SiblingMoreLink"}

(***************************************************************************)
(* getColumnType and prepareColumns.  A raw column is a record             *)
(* [fieldApiName, dataType, lookupId]; a descriptor adds apiPath,          *)
(* fieldName, type and typeAttributes.                                     *)
(***************************************************************************)
\* getColumnType that tests the raw type before the lookup
getColumnTypeRawTypeFirst(column) ==
    IF column.dataType = "datetime" THEN "date-local"
    ELSE IF column.dataType = "picklist" THEN "string"
    ELSE IF Truthy(column.lookupId) THEN "url"
    ELSE column.dataType

getColumnType(column) ==
    IF Truthy(column.lookupId) THEN "url"
    ELSE IF column.dataType = "datetime" THEN "date-local"
    ELSE IF column.dataType = "picklist" THEN "string"
    ELSE column.dataType

\* apiPathOf that takes the last object name instead of the first
apiPathOfLastName(objectApiNames, fieldApiName) ==
    ToStr(IF Len(objectApiNames.e) >= 1
          THEN objectApiNames.e[Len(objectApiNames.e)] ELSE Undefined)
        \o s_Dot \o fieldApiName

\* `${relatedListInfo.objectApiNames[0]}.${field.fieldApiName}`
apiPathOf(objectApiNames, fieldApiName) ==
    ToStr(IF Len(objectApiNames.e) >= 1 THEN objectApiNames.e[1] ELSE Undefined)
        \o s_Dot \o fieldApiName

\* resourceUrlKey that leaves the key as it is
resourceUrlKeyPlain(fieldApiName) == fieldApiName

\* `${field.fieldName}-resourceUrl`
resourceUrlKey(fieldApiName) == fieldApiName \o s_resourceUrl

\* the body of the forEach callback of prepareColumns
prepareColumn(objectApiNames, col) ==
    LET typed == [fieldApiName |-> col.fieldApiName,
                  dataType |-> col.dataType,
                  lookupId |-> col.lookupId,
                  apiPath |-> apiPathOf(objectApiNames, col.fieldApiName),
                  fieldName |-> col.fieldApiName,
                  type |-> getColumnType(col),
                  typeAttributes |-> Undefined]
    IN  IF Truthy(typed.lookupId)
        THEN [typed EXCEPT
                 !.fieldName = resourceUrlKey(typed.fieldName),
                 !.typeAttributes =
                     [label |-> [fieldName |-> typed.fieldApiName],
                      tooltip |-> [fieldName |-> typed.fieldApiName]]]
        ELSE typed

\* relatedListInfo?.displayColumns and relatedListInfo?.objectApiNames
infoDisplayColumns(relatedListInfo) ==
    IF relatedListInfo \in {Undefined, Null} THEN Undefined
    ELSE relatedListInfo.displayColumns

infoObjectApiNames(relatedListInfo) ==
    IF relatedListInfo \in {Undefined, Null} THEN Undefined
    ELSE relatedListInfo.objectApiNames

\* structuredClone that hands back the object it was given
structuredCloneSameObject(ref, fresh) == ref

\* let field = structuredClone(col): the clone is a new object, at the
\* address fresh of the heap
structuredClone(ref, fresh) == fresh

\* an early return that hands back an array with an entry
noFieldsHasEntry == <<Undefined>>

\* let fields = []; ... return fields (the early return of prepareColumns)
noFields == << >>

\* prepareColumns: the sequence of descriptors (the elements of the array
\* it returns)
prepareColumns(relatedListInfo) ==
    IF \/ ~IsArray(infoDisplayColumns(relatedListInfo))
       \/ ~IsArray(infoObjectApiNames(relatedListInfo))
    THEN noFields
    ELSE [n \in 1..Len(relatedListInfo.displayColumns.e) |->
             prepareColumn(relatedListInfo.objectApiNames,
                           relatedListInfo.displayColumns.e[n])]

\* prepareColumns on a heap of column objects (heap[a] holds the properties
\* of the object at address a; input holds the addresses of the entries of
\* relatedListInfo.displayColumns): every assignment of the forEach callback
\* is made on the object structuredClone returned, and that object is pushed
\* to the result.  refs: the addresses of the descriptors returned.
prepareColumnsOnHeap(heap, relatedListInfo, input) ==
    IF \/ ~IsArray(infoDisplayColumns(relatedListInfo))
       \/ ~IsArray(infoObjectApiNames(relatedListInfo))
    THEN [heap |-> heap, refs |-> noFields]
    ELSE LET field == [n \in 1..Len(input) |->
                          structuredClone(input[n], Len(heap) + n)]
             written == {field[n] : n \in 1..Len(input)}
         IN  [heap |-> [a \in (1..Len(heap)) \cup written |->
                           IF a \in written
                           THEN prepareColumn(
                                    relatedListInfo.objectApiNames,
                                    heap[input[CHOOSE n \in 1..Len(input) :
                                                   field[n] = a]])
                           ELSE heap[a]],
              refs |-> field]

(***************************************************************************)
(* getFieldValue and getFieldDisplayValue of lightning/uiRecordApi, for a  *)
(* field given as the string "Object.Field[.Field...]": the field wrapper  *)
(* is found by descending record.fields along the unqualified path; a      *)
(* missing wrapper or field container gives undefined.                     *)
(***************************************************************************)
\* the path after the object name
unqualifiedField(apiPath) ==
    LET dots == {n \in 1..Len(apiPath) : apiPath[n] = "."}
    IN  IF dots = {} THEN apiPath
        ELSE SubSeq(apiPath,
                    (CHOOSE n \in dots : \A m \in dots : n <= m) + 1,
                    Len(apiPath))

RECURSIVE getField(_, _)
getField(r, names) ==
    IF Nullish(r) \/ ~Truthy(GetProp(r, k_fields)) THEN Undefined
    ELSE LET fvr == GetProp(GetProp(r, k_fields), Head(names))
         IN  IF fvr = Undefined THEN Undefined
             ELSE IF Len(names) > 1
                  THEN IF Nullish(fvr) THEN Undefined
                       ELSE getField(GetProp(fvr, k_value), Tail(names))
                  ELSE fvr

getFieldValue(recordData, apiPath) ==
    LET fvr == getField(recordData, Split(unqualifiedField(apiPath), s_Dot))
    IN  IF Nullish(fvr) THEN Undefined ELSE GetProp(fvr, k_value)

getFieldDisplayValue(recordData, apiPath) ==
    LET fvr == getField(recordData, Split(unqualifiedField(apiPath), s_Dot))
    IN  IF Nullish(fvr) THEN Undefined ELSE GetProp(fvr, k_displayValue)

\* `x || ''`
orEmptyString(x) == IF Truthy(x) THEN x ELSE Str(s_empty)

\* the value prepareDisplayRecords / composeDisplayRecords stores under
\* record[field.fieldApiName]
fieldCellValue(variant, recordData, field) ==
    IF UsesEmptyDefault(variant)
    THEN IF field.dataType = "textarea"
         THEN orEmptyString(getFieldValue(recordData, field.apiPath))
         ELSE IF field.type = "string"
              THEN orEmptyString(getFieldDisplayValue(recordData, field.apiPath))
              ELSE orEmptyString(getFieldValue(recordData, field.apiPath))
    ELSE IF field.type = "string"
         THEN getFieldDisplayValue(recordData, field.apiPath)
         ELSE getFieldValue(recordData, field.apiPath)

(***************************************************************************)
(* generateRecordUrl, up to its call of the navigation service.            *)
(***************************************************************************)
\* isSelfLookup that never recognises the sentinel
isSelfLookupNever(lookupId) == FALSE

\* lookupId === 'Id'
isSelfLookup(lookupId) == lookupId = s_Id

\* stripIdSuffix that leaves the suffix in place
stripIdSuffixKeeps(lookupId) == lookupId

\* if (lookupId.endsWith('.Id')) lookupId = lookupId.substring(0, length - 3)
stripIdSuffix(lookupId) ==
    IF EndsWith(lookupId, s_DotId)
    THEN SubSeq(lookupId, 1, Len(lookupId) - 3)
    ELSE lookupId

\* lookupId.split('\\.')
pathSegments(lookupId) == Split(lookupId, s_Separator)

\* the test that ends the path loop early
pathLoopBreaks(variant, currentVal) ==
    IF BreaksOnUndefinedOnly(variant)
    THEN currentVal = Undefined
    ELSE ~Truthy(currentVal)

\* for (const objKey of keys) { currentVal = currentVal[objKey]?.value; ... }
\* threw: reading a property of null or undefined raised a TypeError
RECURSIVE walkPath(_, _, _)
walkPath(variant, currentVal, keys) ==
    IF keys = << >> THEN [threw |-> FALSE, val |-> currentVal]
    ELSE IF Nullish(currentVal) THEN [threw |-> TRUE, val |-> Undefined]
    ELSE LET node == GetProp(currentVal, Head(keys))
             next == IF Nullish(node) THEN Undefined
                     ELSE GetProp(node, k_value)
         IN  IF pathLoopBreaks(variant, next)
             THEN [threw |-> FALSE, val |-> next]
             ELSE walkPath(variant, next, Tail(keys))

\* the page reference handed to NavigationMixin.GenerateUrl
recordPageReference(recordId) ==
    [type |-> "standard__recordPage",
     attributes |-> [actionName |-> "view", recordId |-> recordId]]

\* requestFor without the `if (!recordId)` guard
requestForUnguarded(recordId) ==
    [k |-> "navigate", request |-> recordPageReference(recordId)]

\* if (!recordId) return undefined; otherwise the navigation call
requestFor(recordId) ==
    IF ~Truthy(recordId) THEN [k |-> "return"]
    ELSE [k |-> "navigate", request |-> recordPageReference(recordId)]

\* the target of a lookup path other than 'Id'
targetByPath(variant, recordData, lookupId) ==
    LET walked == walkPath(variant, GetProp(recordData, k_fields),
                           pathSegments(stripIdSuffix(lookupId)))
    IN  IF walked.threw THEN [k |-> "throw"]
        ELSE IF ~Truthy(walked.val) THEN [k |-> "return"]
        ELSE requestFor(GetProp(walked.val, k_id))

\* generateRecordUrl before the await: "return" (undefined is returned and
\* the service is not called), "throw" (an exception reached the catch
\* block before the service was called) or "navigate" (the service is called
\* with request)
resolveTarget(variant, recordData, field) ==
    IF ~Truthy(field.lookupId) THEN [k |-> "return"]
    ELSE IF field.lookupId.t # "string" THEN [k |-> "throw"]
    ELSE IF isSelfLookup(field.lookupId.s)
         THEN requestFor(GetProp(recordData, k_id))
         ELSE targetByPath(variant, recordData, field.lookupId.s)

\* the catch block of generateRecordUrl: console.error(JSON.stringify(ex,
\* null, 5)), then `return undefined`.  stringifies: whether JSON.stringify
\* returns for the caught value; it throws a TypeError for a value that is
\* circular, holds a BigInt or has a throwing toJSON, and then the promise of
\* generateRecordUrl rejects; otherwise it is fulfilled with undefined
catchBlock(stringifies) ==
    IF stringifies THEN [k |-> "fulfilled", v |-> Undefined]
    ELSE [k |-> "rejected"]

\* what a call of the navigation service can do before it returns its
\* promise: return it, throw a value that JSON.stringify accepts, or throw one
\* that it does not
NavThrows == {"returns", "throws", "throwsUnserialisable"}

\* generateRecordUrl from its entry to its await.  requests: the calls of
\* the navigation service; wait: "nav" while the service's promise is
\* awaited, else "settled" with the promise p that generateRecordUrl
\* returned; how: "none" (returned before any call), "caught" (an exception
\* before the call, a TypeError, which JSON.stringify accepts) or "threw" (the
\* service's call itself threw)
linkStart(v, recordData, field, navThrows) ==
    LET outcome == resolveTarget(v, recordData, field)
    IN  CASE outcome.k = "return" ->
               [requests |-> << >>, how |-> "none",
                wait |-> [k |-> "settled",
                          p |-> [k |-> "fulfilled", v |-> Undefined]]]
          [] outcome.k = "throw" ->
               [requests |-> << >>, how |-> "caught",
                wait |-> [k |-> "settled", p |-> catchBlock(TRUE)]]
          [] outcome.k = "navigate" /\ navThrows # "returns" ->
               [requests |-> <<outcome.request>>, how |-> "threw",
                wait |-> [k |-> "settled",
                          p |-> catchBlock(navThrows = "throws")]]
          [] OTHER ->
               [requests |-> <<outcome.request>>, how |-> "called",
                wait |-> [k |-> "nav", request |-> outcome.request]]

\* linkSettle that awaits the service and returns nothing
linkSettleDropsAnswer(answer) == [k |-> "fulfilled", v |-> Undefined]

\* generateRecordUrl after its await: `return await ...` hands the
\* service's answer on, a rejection goes through the catch block
linkSettle(answer) ==
    IF answer.k = "resolved"
    THEN [k |-> "fulfilled", v |-> answer.url]
    ELSE catchBlock(answer.stringifies)

(***************************************************************************)
(* Inputs: lookup paths, raw records, navigation-service answers.          *)
(***************************************************************************)
s_A == <<"A">>
s_B == <<"B">>
s_AdotB == <<"A", ".", "B">>

\* one piece of a generated path, and what joins two pieces: a dot, or the
\* two characters the code splits on
PathAtoms == {s_A, s_B, s_Id, s_empty}
PathJoiners == {s_Dot, s_Separator}

RECURSIVE PathsOf(_)
PathsOf(n) ==
    IF n <= 1 THEN PathAtoms
    ELSE {p \o j \o a : p \in PathsOf(n - 1), j \in PathJoiners, a \in PathAtoms}

BarePaths == UNION {PathsOf(n) : n \in 1..MaxSegs}
LookupPaths == BarePaths \cup {p \o s_DotId : p \in BarePaths}

\* field.lookupId: null or absent on a column that is no lookup
LookupIds == {Null, Undefined} \cup {Str(p) : p \in LookupPaths}

\* { value, displayValue }
Wrapper(v, d) == Obj((k_value :> v) @@ (k_displayValue :> d))

s_t == <<"t">>
s_r == <<"r">>
s_x == <<"x">>
s_X == <<"X">>

\* what a lookup wrapper's value can be: a node with an id, without one, with
\* a null id, and nodes that carry a further relationship B, either as a
\* property of the node or under the node's own fields
RECURSIVE TargetNodes(_)
TargetNodes(d) ==
    LET leaves == {Obj(k_id :> Str(s_t)), EmptyObj, Obj(k_id :> Null)}
    IN  IF d <= 0 THEN leaves
        ELSE leaves
             \cup {Obj((k_id :> Str(s_t)) @@ (s_B :> Wrapper(n, Null)))
                      : n \in TargetNodes(d - 1)}
             \cup {Obj((k_id :> Str(s_t))
                       @@ (k_fields :> Obj(s_B :> Wrapper(n, Null))))
                      : n \in TargetNodes(d - 1)}

\* wrappers of plain fields: missing value, null, falsy and truthy primitives
PlainWrappers ==
    {Obj(k_displayValue :> Null), Wrapper(Null, Null),
     Wrapper(Num(0), Str(<<"0">>)), Wrapper(Bool(FALSE), Null),
     Wrapper(Str(s_empty), Null), Wrapper(Str(s_x), Str(s_X))}

Wrappers == PlainWrappers \cup {Wrapper(n, Null) : n \in TargetNodes(MaxDepth)}

\* the field container of a record: empty, or one wrapper under the key A,
\* under the key "A.B" or under the empty key
FieldKeys == {s_A, s_AdotB, s_empty}
Containers == {EmptyObj} \cup {Obj(k :> w) : k \in FieldKeys, w \in Wrappers}

\* raw records: with and without an id, with and without a field container
RawRecords ==
    {Obj(k_id :> Str(s_r)), EmptyObj}
    \cup {Obj((k_id :> Str(s_r)) @@ (k_fields :> c)) : c \in Containers}
    \cup {Obj(k_fields :> c) : c \in Containers}

\* what the navigation service can answer with
NavUrls == {Str(<<"/", "u">>), Str(<<"/", "v">>)}

(***************************************************************************)
(* State of one component instance.                                        *)
(***************************************************************************)
VARIABLES
    variant,                   \* which of the four components this is
    relationshipName,          \* @api relationshipName
    parentSObjectTypeName,     \* @api parentSObjectTypeName
    recordTypeId,              \* RelatedList.recordTypeId
    parentRecordId,            \* SiblingRelatedList.parentRecordId
    parentRecordTypeId,        \* SiblingRelatedList.parentRecordTypeId
    relatedListSummary,
    displayColumns,
    relatedListFieldNames,
    page,
    records,
    moreLink,
    hasError,
    recordLoaded,
    parentRecordLoaded,
    relatedListSummaryLoaded,
    relatedListDetailLoaded,
    relatedListRecordsLoaded,
    frames,                    \* suspended executions of handleGetRelatedListRecords
    moreLinkPending,           \* generateMoreLink promises not yet settled
    events,                    \* wire events delivered so far
    completed,                 \* the execution of handleGetRelatedListRecords that finished last
    uncaught,                  \* exceptions and rejections no handler caught
    call                       \* the last invocation: of a wire handler, or of generateRecordUrl or prepareColumns

dataVars == <<recordTypeId, parentRecordId, parentRecordTypeId,
              relatedListSummary, displayColumns, relatedListFieldNames,
              page, records, moreLink>>
flagVars == <<hasError, recordLoaded, parentRecordLoaded,
              relatedListSummaryLoaded, relatedListDetailLoaded,
              relatedListRecordsLoaded>>
vars == <<variant, relationshipName, parentSObjectTypeName, dataVars,
          flagVars, frames,
          moreLinkPending, events, completed, uncaught, call>>

\* the fields of a freshly constructed component
FieldsAtConstruction ==
    /\ recordTypeId = Undefined
    /\ parentRecordId = Undefined
    /\ parentRecordTypeId = Undefined
    /\ relatedListSummary = Undefined
    /\ displayColumns = Undefined
    /\ relatedListFieldNames = Undefined
    /\ page = Undefined
    /\ records = Undefined
    /\ moreLink = Undefined
    /\ hasError = FALSE
    /\ recordLoaded = FALSE
    /\ parentRecordLoaded = FALSE
    /\ relatedListSummaryLoaded = FALSE
    /\ relatedListDetailLoaded = FALSE
    /\ relatedListRecordsLoaded = FALSE

NothingRunning ==
    /\ frames = << >>
    /\ moreLinkPending = << >>
    /\ events = 0
    /\ completed = Undefined
    /\ uncaught = {}

(***************************************************************************)
(* prepareDisplayRecords / composeDisplayRecords.  A frame is one          *)
(* execution of handleGetRelatedListRecords, suspended at an await:        *)
(*   recs     the elements of data.records                                 *)
(*   i, j     the record and the column the loops are at                   *)
(*   cols     the displayColumns array the inner loop iterates (read when  *)
(*            the inner loop of record i began)                            *)
(*   record   the row under construction, records the rows pushed so far   *)
(*   wait     what the execution awaits: "nav" (the navigation service),   *)
(*            "settled" (the promise of a generateRecordUrl that has       *)
(*            already settled), "rows" (the fulfilled promise of           *)
(*            prepareDisplayRecords, awaited by the handler) or "failed"   *)
(*            (that promise, rejected)                                     *)
(*   rowCols, cells   a record of the columns each row was built from and  *)
(*            of every lookup cell's link generation                       *)
(***************************************************************************)
\* let record = { id: recordData.id }
seedRow(recordData) == Obj(k_id :> GetProp(recordData, k_id))

\* newFrame whose row array starts with an entry: let records = [{}]
newFrameSeedsRow(data, cols) ==
    LET guarded == ~IsArray(data.records) \/ ~IsArray(cols)
        recs == IF guarded THEN << >> ELSE data.records.e
    IN  [data |-> data,
         guarded |-> guarded,
         recs |-> recs,
         i |-> 1,
         j |-> 1,
         cols |-> IF guarded \/ recs = << >> THEN << >> ELSE cols.e,
         record |-> IF recs = << >> THEN EmptyObj ELSE seedRow(recs[1]),
         records |-> <<EmptyObj>>,
         rowCols |-> <<<< >>>>,
         cells |-> << >>,
         wait |-> [k |-> "running"]]

\* a frame that has just entered the outer loop, or returned from the guard
newFrame(data, cols) ==
    LET guarded == ~IsArray(data.records) \/ ~IsArray(cols)
        recs == IF guarded THEN << >> ELSE data.records.e
    IN  [data |-> data,
         guarded |-> guarded,
         recs |-> recs,
         i |-> 1,
         j |-> 1,
         cols |-> IF guarded \/ recs = << >> THEN << >> ELSE cols.e,
         record |-> IF recs = << >> THEN EmptyObj ELSE seedRow(recs[1]),
         records |-> << >>,
         rowCols |-> << >>,
         cells |-> << >>,
         wait |-> [k |-> "running"]]

\* the entry of the cell log for a link generation that has settled
cellEntry(f, requests, how, p) ==
    [i |-> f.i, j |-> f.j, requests |-> requests, how |-> how, p |-> p]

\* await this.generateRecordUrl(recordData, field), up to the suspension
linkStep(v, f, navThrows) ==
    LET started == linkStart(v, f.recs[f.i], f.cols[f.j], navThrows)
    IN  IF started.wait.k = "nav"
        THEN [f EXCEPT !.wait = started.wait]
        ELSE [f EXCEPT
                 !.wait = started.wait,
                 !.cells = Append(@, cellEntry(f, started.requests,
                                               started.how, started.wait.p))]

\* the loops of the projector from the position of frame f to the next await
\* (or to the return of the rows); colsNow is this.displayColumns now
RECURSIVE runFrame(_, _, _, _)
runFrame(v, f, colsNow, navThrows) ==
    IF f.i > Len(f.recs)
    THEN [f EXCEPT !.wait = [k |-> "rows"]]
    ELSE IF f.j > Len(f.cols)
    THEN \* records.push(record), then the next record's inner loop begins
         LET pushed == [f EXCEPT !.records = Append(@, f.record),
                                 !.rowCols = Append(@, f.cols),
                                 !.i = f.i + 1,
                                 !.j = 1]
         IN  IF pushed.i > Len(f.recs)
             THEN runFrame(v, pushed, colsNow, navThrows)
             ELSE runFrame(v, [pushed EXCEPT
                                  !.record = seedRow(f.recs[pushed.i]),
                                  !.cols = colsNow.e],
                           colsNow, navThrows)
    ELSE LET field == f.cols[f.j]
             valued == [f EXCEPT !.record =
                           SetProp(@, field.fieldApiName,
                                   fieldCellValue(v, f.recs[f.i], field))]
         IN  IF Truthy(field.lookupId)
             THEN linkStep(v, valued, navThrows)
             ELSE runFrame(v, [valued EXCEPT !.j = f.j + 1], colsNow, navThrows)

\* storeLink that also steps over the column after the awaited one
storeLinkSkipsNextCell(f, value) ==
    [f EXCEPT !.record = SetProp(@, resourceUrlKey(f.cols[f.j].fieldApiName), value),
              !.j = f.j + 2,
              !.wait = [k |-> "running"]]

\* storeLink without the assignment to the "-resourceUrl" key
storeLinkSkipsKey(f, value) ==
    [f EXCEPT !.j = f.j + 1, !.wait = [k |-> "running"]]

\* record[`${field.fieldApiName}-resourceUrl`] = <the awaited value>
storeLink(f, value) ==
    [f EXCEPT !.record = SetProp(@, resourceUrlKey(f.cols[f.j].fieldApiName), value),
              !.j = f.j + 1,
              !.wait = [k |-> "running"]]

\* filterRecords with a filter that drops the first row
filterRecordsDropsFirst(displayRecords) ==
    IF displayRecords.e = << >> THEN displayRecords
    ELSE Arr(Tail(displayRecords.e))

\* filterRecords of RelatedList
filterRecords(displayRecords) == displayRecords

(***************************************************************************)
(* Wire handlers.  A handler receives { error, data }: data or error is    *)
(* Undefined when the other is delivered.                                  *)
(***************************************************************************)
s_ExtraField == <<"E", "x", "t", "r", "a", "F", "i", "e", "l", "d", "_", "_", "c">>
EXTRA_FIELDS == <<s_ExtraField>>

UpperCase == <<"A", "B", "C", "D", "E", "F", "G", "H", "I", "J", "K", "L", "M",
               "N", "O", "P", "Q", "R", "S", "T", "U", "V", "W", "X", "Y", "Z">>
LowerCase == <<"a", "b", "c", "d", "e", "f", "g", "h", "i", "j", "k", "l", "m",
               "n", "o", "p", "q", "r", "s", "t", "u", "v", "w", "x", "y", "z">>

\* toLowerCase that leaves the string as it is
toLowerCaseKeeps(s) == s

\* String.prototype.toLowerCase
toLowerCase(s) ==
    [n \in 1..Len(s) |->
        IF \E u \in 1..Len(UpperCase) : UpperCase[u] = s[n]
        THEN LowerCase[CHOOSE u \in 1..Len(UpperCase) : UpperCase[u] = s[n]]
        ELSE s[n]]

\* x?.toLowerCase()
optLowerCase(x) == IF Nullish(x) THEN Undefined ELSE Str(toLowerCase(x.s))

\* data.relatedLists.find(rl => rl.relatedListId?.toLowerCase()
\*                                 === this.relationshipName?.toLowerCase())
findSummary(relatedLists, name) ==
    LET hits == {n \in 1..Len(relatedLists) :
                    optLowerCase(relatedLists[n].relatedListId) = optLowerCase(name)}
    IN  IF hits = {} THEN Undefined
        ELSE relatedLists[CHOOSE n \in hits : \A m \in hits : n <= m]

\* the page reference generateMoreLink asks the navigation service for
relationshipPageReference(objectApiName, recordId, name) ==
    [type |-> "standard__recordRelationshipPage",
     attributes |-> [actionName |-> "view", objectApiName |-> objectApiName,
                     recordId |-> recordId, relationshipApiName |-> name]]

\* the event a wire adapter has invoked a handler with: { error, data }
delivery(handler, data, error) ==
    [op |-> handler, stage |-> "delivered", data |-> data, error |-> error]

\* getFieldValue(data, <field definition>) of a record payload: the payload
\* carries the value of the one field that was asked for
handleGetRecord(data, error) ==
    /\ events' = events + 1
    /\ call' = delivery("handleGetRecord", data, error)
    /\ UNCHANGED <<variant, relationshipName, parentSObjectTypeName,
                   parentRecordTypeId,
                   relatedListSummary, displayColumns, relatedListFieldNames,
                   page, records, moreLink, parentRecordLoaded,
                   relatedListSummaryLoaded, relatedListDetailLoaded,
                   relatedListRecordsLoaded, frames, completed, uncaught>>
    /\ IF data # Undefined
       THEN /\ recordTypeId' = IF variant = "RelatedList" THEN data.value
                               ELSE recordTypeId
            /\ parentRecordId' = IF variant = "RelatedList" THEN parentRecordId
                                 ELSE data.value
            /\ moreLinkPending' =
                   IF RequestsMoreLink(variant)
                   THEN Append(moreLinkPending,
                               relationshipPageReference(parentSObjectTypeName,
                                                         data.value,
                                                         relationshipName))
                   ELSE moreLinkPending
            /\ recordLoaded' = (HasFlags(variant) \/ recordLoaded)
            /\ UNCHANGED hasError
       ELSE /\ recordLoaded' =
                   ((error # Undefined /\ variant = "RelatedList") \/ recordLoaded)
            /\ hasError' =
                   ((error # Undefined /\ variant = "SiblingFlags") \/ hasError)
            /\ UNCHANGED <<recordTypeId, parentRecordId, moreLinkPending>>

\* generateMoreLink().then(link => { this.moreLink = link; })
moreLinkFulfilled(n, link) ==
    /\ n \in 1..Len(moreLinkPending)
    /\ moreLink' = link
    /\ moreLinkPending' = SubSeq(moreLinkPending, 1, n - 1)
                              \o SubSeq(moreLinkPending, n + 1, Len(moreLinkPending))
    /\ UNCHANGED <<variant, relationshipName, parentSObjectTypeName,
                   recordTypeId, parentRecordId,
                   parentRecordTypeId, relatedListSummary, displayColumns,
                   relatedListFieldNames, page, records, flagVars, frames,
                   events, completed, uncaught, call>>

\* the promise of generateMoreLink rejects: no handler is attached to it
moreLinkRejected(n) ==
    /\ n \in 1..Len(moreLinkPending)
    /\ uncaught' = uncaught \cup {"generateMoreLink"}
    /\ moreLinkPending' = SubSeq(moreLinkPending, 1, n - 1)
                              \o SubSeq(moreLinkPending, n + 1, Len(moreLinkPending))
    /\ UNCHANGED <<variant, relationshipName, parentSObjectTypeName,
                   dataVars, flagVars, frames,
                   events, completed, call>>

\* SiblingRelatedList with flags only
handleGetParentRecord(data, error) ==
    /\ variant = "SiblingFlags"
    /\ events' = events + 1
    /\ call' = delivery("handleGetParentRecord", data, error)
    /\ parentRecordTypeId' = IF data # Undefined THEN data.value
                             ELSE parentRecordTypeId
    /\ parentRecordLoaded' =
           (data # Undefined \/ error # Undefined \/ parentRecordLoaded)
    /\ UNCHANGED <<variant, relationshipName, parentSObjectTypeName,
                   recordTypeId, parentRecordId,
                   relatedListSummary, displayColumns, relatedListFieldNames,
                   page, records, moreLink, hasError, recordLoaded,
                   relatedListSummaryLoaded, relatedListDetailLoaded,
                   relatedListRecordsLoaded, frames, moreLinkPending,
                   completed, uncaught>>

\* handleGetRelatedListsInfo whose success branch clears hasError
handleGetRelatedListsInfoClearsError(data, error) ==
    /\ events' = events + 1
    /\ call' = delivery("handleGetRelatedListsInfo", data, error)
    /\ UNCHANGED <<variant, relationshipName, parentSObjectTypeName,
                   recordTypeId, parentRecordId,
                   parentRecordTypeId, displayColumns, relatedListFieldNames,
                   page, records, moreLink, recordLoaded, parentRecordLoaded,
                   relatedListDetailLoaded, relatedListRecordsLoaded, frames,
                   moreLinkPending, completed, uncaught>>
    /\ IF data # Undefined /\ IsArray(data.relatedLists)
       THEN /\ relatedListSummary' = findSummary(data.relatedLists.e, relationshipName)
            /\ relatedListSummaryLoaded' = (HasFlags(variant) \/ relatedListSummaryLoaded)
            /\ hasError' = FALSE
       ELSE /\ hasError' = ((error # Undefined /\ HasFlags(variant)) \/ hasError)
            /\ UNCHANGED <<relatedListSummary, relatedListSummaryLoaded>>

handleGetRelatedListsInfo(data, error) ==
    /\ events' = events + 1
    /\ call' = delivery("handleGetRelatedListsInfo", data, error)
    /\ UNCHANGED <<variant, relationshipName, parentSObjectTypeName,
                   recordTypeId, parentRecordId,
                   parentRecordTypeId, displayColumns, relatedListFieldNames,
                   page, records, moreLink, recordLoaded, parentRecordLoaded,
                   relatedListDetailLoaded, relatedListRecordsLoaded, frames,
                   moreLinkPending, completed, uncaught>>
    /\ IF data # Undefined /\ IsArray(data.relatedLists)
       THEN /\ relatedListSummary' = findSummary(data.relatedLists.e, relationshipName)
            /\ relatedListSummaryLoaded' = (HasFlags(variant) \/ relatedListSummaryLoaded)
            /\ UNCHANGED hasError
       ELSE /\ hasError' = ((error # Undefined /\ HasFlags(variant)) \/ hasError)
            /\ UNCHANGED <<relatedListSummary, relatedListSummaryLoaded>>

\* x[0]
firstElement(x) ==
    CASE x.t = "array" -> IF Len(x.e) >= 1 THEN x.e[1] ELSE Undefined
      [] x.t = "string" -> IF Len(x.s) >= 1 THEN Str(<<x.s[1]>>) ELSE Undefined
      [] OTHER -> Undefined

\* this.displayColumns.map(col => col.apiPath)
apiPaths(columns) == [n \in 1..Len(columns) |-> Str(columns[n].apiPath)]

\* EXTRA_FIELDS.map(field => `${data.objectApiNames[0]}.${field}`)
extraFieldNames(data) ==
    [n \in 1..Len(EXTRA_FIELDS) |->
        Str(ToStr(firstElement(data.objectApiNames)) \o s_Dot \o EXTRA_FIELDS[n])]

\* RelatedList reads data.objectApiNames[0] after prepareColumns: a TypeError
\* when objectApiNames is null or undefined
extraFieldsThrow(v, data) ==
    v = "RelatedList" /\ Len(EXTRA_FIELDS) > 0 /\ Nullish(data.objectApiNames)

\* relatedListFieldNames after a metadata success
fieldNamesFor(v, data) ==
    IF v = "RelatedList" /\ ~extraFieldsThrow(v, data)
    THEN Arr(apiPaths(prepareColumns(data)) \o extraFieldNames(data))
    ELSE Arr(apiPaths(prepareColumns(data)))

\* handleGetRelatedListInfo whose error branch resets the columns
handleGetRelatedListInfoResetsOnError(data, error) ==
    /\ events' = events + 1
    /\ call' = delivery("handleGetRelatedListInfo", data, error)
    /\ UNCHANGED <<variant, relationshipName, parentSObjectTypeName,
                   recordTypeId, parentRecordId,
                   parentRecordTypeId, relatedListSummary, page, records,
                   moreLink, recordLoaded, parentRecordLoaded,
                   relatedListSummaryLoaded, relatedListRecordsLoaded, frames,
                   moreLinkPending, completed>>
    /\ IF data # Undefined
       THEN /\ displayColumns' = Arr(prepareColumns(data))
            /\ relatedListFieldNames' = fieldNamesFor(variant, data)
            /\ IF extraFieldsThrow(variant, data)
               THEN /\ uncaught' = uncaught \cup {"handleGetRelatedListInfo"}
                    /\ UNCHANGED relatedListDetailLoaded
               ELSE /\ relatedListDetailLoaded' =
                           (HasFlags(variant) \/ relatedListDetailLoaded)
                    /\ UNCHANGED uncaught
            /\ UNCHANGED hasError
       ELSE /\ hasError' = ((error # Undefined /\ HasFlags(variant)) \/ hasError)
            /\ displayColumns' = IF error # Undefined THEN Undefined
                                 ELSE displayColumns
            /\ relatedListFieldNames' = IF error # Undefined THEN Undefined
                                        ELSE relatedListFieldNames
            /\ UNCHANGED <<relatedListDetailLoaded, uncaught>>

handleGetRelatedListInfo(data, error) ==
    /\ events' = events + 1
    /\ call' = delivery("handleGetRelatedListInfo", data, error)
    /\ UNCHANGED <<variant, relationshipName, parentSObjectTypeName,
                   recordTypeId, parentRecordId,
                   parentRecordTypeId, relatedListSummary, page, records,
                   moreLink, recordLoaded, parentRecordLoaded,
                   relatedListSummaryLoaded, relatedListRecordsLoaded, frames,
                   moreLinkPending, completed>>
    /\ IF data # Undefined
       THEN /\ displayColumns' = Arr(prepareColumns(data))
            /\ relatedListFieldNames' = fieldNamesFor(variant, data)
            /\ IF extraFieldsThrow(variant, data)
               THEN /\ uncaught' = uncaught \cup {"handleGetRelatedListInfo"}
                    /\ UNCHANGED relatedListDetailLoaded
               ELSE /\ relatedListDetailLoaded' =
                           (HasFlags(variant) \/ relatedListDetailLoaded)
                    /\ UNCHANGED uncaught
            /\ UNCHANGED hasError
       ELSE /\ hasError' = ((error # Undefined /\ HasFlags(variant)) \/ hasError)
            /\ UNCHANGED <<displayColumns, relatedListFieldNames,
                           relatedListDetailLoaded, uncaught>>

\* handleGetRelatedListRecords up to its await
handleGetRelatedListRecords(data, error, navThrows) ==
    /\ events' = events + 1
    /\ call' = delivery("handleGetRelatedListRecords", data, error)
    /\ UNCHANGED <<variant, relationshipName, parentSObjectTypeName,
                   recordTypeId, parentRecordId,
                   parentRecordTypeId, relatedListSummary, displayColumns,
                   relatedListFieldNames, records, moreLink, recordLoaded,
                   parentRecordLoaded, relatedListSummaryLoaded,
                   relatedListDetailLoaded, relatedListRecordsLoaded,
                   moreLinkPending, completed, uncaught>>
    /\ IF data # Undefined
       THEN /\ page' = data
            /\ frames' = Append(frames,
                   runFrame(variant, newFrame(data, displayColumns),
                            displayColumns, navThrows))
            /\ UNCHANGED hasError
       ELSE /\ hasError' = ((error # Undefined /\ HasFlags(variant)) \/ hasError)
            /\ UNCHANGED <<page, frames>>

\* get dataLoaded()
dataLoaded ==
    IF variant = "RelatedList"
    THEN recordLoaded /\ relatedListDetailLoaded /\ relatedListRecordsLoaded
    ELSE recordLoaded /\ parentRecordLoaded /\ relatedListDetailLoaded
             /\ relatedListRecordsLoaded

\* frames without the n-th
dropFrame(n) == SubSeq(frames, 1, n - 1) \o SubSeq(frames, n + 1, Len(frames))

\* the execution resumes with the settled promise p of generateRecordUrl:
\* a fulfilled promise gives the cell's link and the loops go on, a rejected
\* one ends prepareDisplayRecords with that rejection ("failed": the handler
\* has not resumed yet)
resumeWith(n, f, p, navThrows) ==
    /\ frames' = [frames EXCEPT ![n] =
           IF p.k = "fulfilled"
           THEN runFrame(variant, storeLink(f, p.v), displayColumns, navThrows)
           ELSE [f EXCEPT !.wait = [k |-> "failed"]]]
    /\ UNCHANGED <<variant, relationshipName, parentSObjectTypeName, dataVars,
                   flagVars, moreLinkPending, events, completed, uncaught, call>>

\* the navigation service settles the call frame n awaits: generateRecordUrl
\* runs from its await to its end and its promise settles; the projector that
\* awaits that promise resumes in a later microtask (linkResumes)
navigationSettles(n, answer) ==
    /\ n \in 1..Len(frames)
    /\ frames[n].wait.k = "nav"
    /\ LET f == frames[n]
           p == linkSettle(answer)
       IN  frames' = [frames EXCEPT ![n] =
               [f EXCEPT !.cells = Append(@, cellEntry(f, <<f.wait.request>>,
                                                       answer.k, p)),
                         !.wait = [k |-> "settled", p |-> p]]]
    /\ UNCHANGED <<variant, relationshipName, parentSObjectTypeName, dataVars,
                   flagVars, moreLinkPending, events, completed, uncaught, call>>

\* the await of a generateRecordUrl that had already settled
linkResumes(n, navThrows) ==
    /\ n \in 1..Len(frames)
    /\ frames[n].wait.k = "settled"
    /\ resumeWith(n, frames[n], frames[n].wait.p, navThrows)

\* projectionCompletes that assigns the rows only if the page they were
\* built from is still the current page
projectionCompletesIfCurrent(n) ==
    /\ n \in 1..Len(frames)
    /\ frames[n].wait.k \in {"rows", "failed"}
    /\ frames' = dropFrame(n)
    /\ IF frames[n].wait.k = "rows"
       THEN /\ records' = IF frames[n].data = page
                          THEN Arr(frames[n].records)
                          ELSE records
            /\ relatedListRecordsLoaded' =
                   (HasFlags(variant) \/ relatedListRecordsLoaded)
            /\ completed' = frames[n]
            /\ UNCHANGED uncaught
       ELSE /\ uncaught' = uncaught \cup {"handleGetRelatedListRecords"}
            /\ UNCHANGED <<records, relatedListRecordsLoaded, completed>>
    /\ UNCHANGED <<variant, relationshipName, parentSObjectTypeName,
                   recordTypeId, parentRecordId, parentRecordTypeId,
                   relatedListSummary, displayColumns, relatedListFieldNames,
                   page, moreLink, hasError, recordLoaded, parentRecordLoaded,
                   relatedListSummaryLoaded, relatedListDetailLoaded,
                   moreLinkPending, events, call>>

\* handleGetRelatedListRecords after its await: with the rows when the
\* promise of the projector is fulfilled; when it is rejected the handler
\* rejects with it, and nothing handles that rejection
projectionCompletes(n) ==
    /\ n \in 1..Len(frames)
    /\ frames[n].wait.k \in {"rows", "failed"}
    /\ frames' = dropFrame(n)
    /\ IF frames[n].wait.k = "rows"
       THEN /\ records' = IF variant = "RelatedList"
                          THEN filterRecords(Arr(frames[n].records))
                          ELSE Arr(frames[n].records)
            /\ relatedListRecordsLoaded' =
                   (HasFlags(variant) \/ relatedListRecordsLoaded)
            /\ completed' = frames[n]
            /\ UNCHANGED uncaught
       ELSE /\ uncaught' = uncaught \cup {"handleGetRelatedListRecords"}
            /\ UNCHANGED <<records, relatedListRecordsLoaded, completed>>
    /\ UNCHANGED <<variant, relationshipName, parentSObjectTypeName,
                   recordTypeId, parentRecordId, parentRecordTypeId,
                   relatedListSummary, displayColumns, relatedListFieldNames,
                   page, moreLink, hasError, recordLoaded, parentRecordLoaded,
                   relatedListSummaryLoaded, relatedListDetailLoaded,
                   moreLinkPending, events, call>>

\* what the navigation service can do with a call it has accepted
\* (stringifies: whether JSON.stringify returns for the rejection's reason)
NavAnswers ==
    {[k |-> "resolved", url |-> u, stringifies |-> TRUE] : u \in NavUrls}
        \cup {[k |-> "rejected", url |-> Undefined, stringifies |-> b] :
                  b \in BOOLEAN}

(***************************************************************************)
(* Payloads of the wire events.                                            *)
(***************************************************************************)
s_N == <<"N">>
s_M == <<"M">>
s_T == <<"T">>
s_O == <<"O">>
s_P == <<"P">>
s_AdotId == <<"A", ".", "I", "d">>

RawColumn(name, dataType, lookupId) ==
    [fieldApiName |-> name, dataType |-> dataType, lookupId |-> lookupId]

Info(columns, names) == [displayColumns |-> columns, objectApiNames |-> names]

ErrorPayload == [body |-> "error"]

\* sequences over S of length at most n
RECURSIVE SeqsUpTo(_, _)
SeqsUpTo(S, n) ==
    IF n <= 0 THEN {<< >>}
    ELSE SeqsUpTo(S, n - 1)
         \cup {Append(q, x) : q \in {r \in SeqsUpTo(S, n - 1) : Len(r) = n - 1},
                              x \in S}

\* those without a repeated element
Distinct(q) == \A a, b \in 1..Len(q) : q[a] = q[b] => a = b

\* the columns of the projection runs: a text column, a number column, a
\* rich-text column and a lookup column
ProjectColumns ==
    {RawColumn(s_N, "string", Null), RawColumn(s_M, "int", Null),
     RawColumn(s_T, "textarea", Null), RawColumn(s_A, "string", Str(s_AdotId))}

\* a column set of two lookup columns that link to the same target
TwoLookupColumns ==
    <<RawColumn(s_A, "string", Str(s_AdotId)),
      RawColumn(s_B, "string", Str(s_AdotId))>>

ProjectInfos ==
    {Info(Arr(cs), Arr(<<Str(s_O)>>)) :
        cs \in {q \in SeqsUpTo(ProjectColumns, MaxCols) : Distinct(q)}
                   \cup {TwoLookupColumns}}

\* the records of the projection runs: one with every field and a lookup
\* target, one without the lookup field, one whose lookup value is null, one
\* whose target has no id, one whose lookup wrapper has no value, one without
\* a field container
recFull ==
    Obj((k_id :> Str(s_r))
        @@ (k_fields :> Obj((s_N :> Wrapper(Str(s_x), Str(s_X)))
                            @@ (s_M :> Wrapper(Num(0), Str(<<"0">>)))
                            @@ (s_T :> Wrapper(Str(s_x), Str(s_X)))
                            @@ (s_A :> Wrapper(Obj(k_id :> Str(s_t)), Null)))))
recNoTarget ==
    Obj((k_id :> Str(<<"s">>))
        @@ (k_fields :> Obj((s_N :> Wrapper(Str(s_x), Str(s_X)))
                            @@ (s_M :> Wrapper(Bool(FALSE), Null)))))
recNullTarget ==
    Obj((k_id :> Str(<<"u">>))
        @@ (k_fields :> Obj((s_N :> Wrapper(Null, Null))
                            @@ (s_T :> Wrapper(Str(s_empty), Null))
                            @@ (s_A :> Wrapper(Null, Null)))))
recNoId ==
    Obj((k_id :> Str(<<"v">>))
        @@ (k_fields :> Obj((s_N :> Wrapper(Str(s_x), Str(s_X)))
                            @@ (s_A :> Wrapper(EmptyObj, Null)))))
recNoValue ==
    Obj((k_id :> Str(<<"y">>))
        @@ (k_fields :> Obj((s_N :> Wrapper(Str(s_x), Str(s_X)))
                            @@ (s_A :> Obj(k_displayValue :> Null)))))
recNoFields == Obj(k_id :> Str(<<"w">>))

PageRecords ==
    {recFull, recNoTarget, recNullTarget, recNoId, recNoValue, recNoFields}

Page(recs) == [records |-> recs]

ProjectPages ==
    {Page(Arr(rs)) : rs \in SeqsUpTo(PageRecords, MaxRecords)}
        \cup {Page(Undefined)}

(***************************************************************************)
(* SpecProject: one metadata response, then one page of records and its    *)
(* projection.                                                             *)
(***************************************************************************)
ProjectInit ==
    /\ variant \in Variants
    /\ relationshipName = Str(<<"C", "s">>)
    /\ parentSObjectTypeName = Str(s_O)
    /\ FieldsAtConstruction
    /\ NothingRunning
    /\ call = Undefined

ProjectInfoArrives ==
    /\ events = 0
    /\ page = Undefined
    /\ \E data \in ProjectInfos : handleGetRelatedListInfo(data, Undefined)

ProjectPageArrives ==
    /\ page = Undefined
    /\ \E data \in ProjectPages, navThrows \in NavThrows :
           handleGetRelatedListRecords(data, Undefined, navThrows)

NavigationAnswers ==
    \E n \in 1..Len(frames), answer \in NavAnswers : navigationSettles(n, answer)

LinkResumes ==
    \E n \in 1..Len(frames), navThrows \in NavThrows : linkResumes(n, navThrows)

ProjectionCompletes == \E n \in 1..Len(frames) : projectionCompletes(n)

ProjectNext ==
    \/ ProjectInfoArrives
    \/ ProjectPageArrives
    \/ NavigationAnswers
    \/ LinkResumes
    \/ ProjectionCompletes

SpecProject == ProjectInit /\ [][ProjectNext]_vars

\* some execution awaits the navigation service: NavigationAnswers is enabled
NavigationPending == \E n \in 1..Len(frames) : frames[n].wait.k = "nav"

\* some execution awaits a settled promise: LinkResumes is enabled
ResumePending == \E n \in 1..Len(frames) : frames[n].wait.k = "settled"

\* the pages of the runs of SpecProjectFair: records whose lookup target
\* resolves or is absent
LinkPageArrives ==
    /\ page = Undefined
    /\ \E data \in {Page(Arr(rs)) :
                        rs \in SeqsUpTo({recFull, recNoTarget}, MaxRecords)}
                        \cup {Page(Undefined)},
          navThrows \in NavThrows :
           handleGetRelatedListRecords(data, Undefined, navThrows)

ProjectFairNext ==
    \/ ProjectInfoArrives
    \/ LinkPageArrives
    \/ NavigationAnswers
    \/ LinkResumes
    \/ ProjectionCompletes

\* one metadata response, one page and its projection, where every
\* navigation call is eventually answered and every continuation that can run
\* is eventually run (the microtask queue is always drained).  The weak
\* fairness of NavigationAnswers and of LinkResumes is written out, with the
\* state predicate that enables each in place of ENABLED.
SpecProjectFair ==
    /\ ProjectInit
    /\ [][ProjectFairNext]_vars
    /\ ([]<>(~NavigationPending) \/ []<><<NavigationAnswers>>_vars)
    /\ ([]<>(~ResumePending) \/ []<><<LinkResumes>>_vars)
    /\ WF_vars(ProjectionCompletes)

(***************************************************************************)
(* SpecUrl: one invocation of generateRecordUrl(recordData, field), over   *)
(* every generated lookup path and raw record.                             *)
(***************************************************************************)
UrlInit ==
    /\ variant \in Variants
    /\ relationshipName = Str(<<"C", "s">>)
    /\ parentSObjectTypeName = Str(s_O)
    /\ FieldsAtConstruction
    /\ NothingRunning
    /\ \E recordData \in RawRecords, lookupId \in LookupIds :
           call = [op |-> "generateRecordUrl",
                   stage |-> "start",
                   recordData |-> recordData,
                   field |-> [lookupId |-> lookupId],
                   requests |-> << >>,
                   how |-> "none",
                   answer |-> Undefined,
                   p |-> Undefined]

\* the invocation runs to its await, or to its return
UrlInvoked ==
    /\ call.stage = "start"
    /\ \E navThrows \in NavThrows :
           LET started == linkStart(variant, call.recordData, call.field, navThrows)
           IN  call' = [call EXCEPT
                   !.stage = IF started.wait.k = "nav" THEN "awaiting" ELSE "settled",
                   !.requests = started.requests,
                   !.how = started.how,
                   !.p = IF started.wait.k = "nav" THEN Undefined ELSE started.wait.p]
    /\ UNCHANGED <<variant, relationshipName, parentSObjectTypeName,
                   dataVars, flagVars, frames,
                   moreLinkPending, events, completed, uncaught>>

\* the navigation service settles the awaited call
UrlAnswered ==
    /\ call.stage = "awaiting"
    /\ \E answer \in NavAnswers :
           call' = [call EXCEPT !.stage = "settled",
                                !.how = answer.k,
                                !.answer = answer,
                                !.p = linkSettle(answer)]
    /\ UNCHANGED <<variant, relationshipName, parentSObjectTypeName,
                   dataVars, flagVars, frames,
                   moreLinkPending, events, completed, uncaught>>

UrlNext == UrlInvoked \/ UrlAnswered

SpecUrl == UrlInit /\ [][UrlNext]_vars

(***************************************************************************)
(* SpecColumns: one call of prepareColumns(relatedListInfo), and a second  *)
(* call on the same metadata, over well and ill formed metadata.           *)
(***************************************************************************)
ColumnDataTypes == {"string", "datetime", "picklist", "int"}

AnyColumns ==
    {RawColumn(name, dataType, lookupId) :
        name \in {s_N, s_A}, dataType \in ColumnDataTypes,
        lookupId \in {Null, Str(s_Id), Str(s_AdotId)}}

AnyObjectApiNames ==
    {Undefined, Null, Arr(<< >>), Arr(<<Str(s_O)>>), Arr(<<Str(s_O), Str(s_P)>>)}

AnyInfos ==
    {Undefined, Null}
        \cup {Info(Arr(cs), names) :
                 cs \in SeqsUpTo(AnyColumns, MaxCols), names \in AnyObjectApiNames}
        \cup {Info(columns, names) :
                 columns \in {Undefined, Null, Str(s_N)}, names \in AnyObjectApiNames}

\* the entries of relatedListInfo.displayColumns as objects of a heap: entry
\* n is the object at address n
entryObjects(info) ==
    IF IsArray(infoDisplayColumns(info)) THEN info.displayColumns.e ELSE << >>

entryAddresses(info) == [n \in 1..Len(entryObjects(info)) |-> n]

ColumnsInit ==
    /\ variant \in Variants
    /\ relationshipName = Str(<<"C", "s">>)
    /\ parentSObjectTypeName = Str(s_O)
    /\ FieldsAtConstruction
    /\ NothingRunning
    /\ \E info \in AnyInfos :
           call = [op |-> "prepareColumns", stage |-> "start",
                   info |-> info, result |-> Undefined,
                   input |-> entryAddresses(info),
                   heap |-> entryObjects(info),
                   refs |-> << >>, again |-> << >>]

ColumnsPrepared ==
    /\ call.stage = "start"
    /\ LET ran == prepareColumnsOnHeap(call.heap, call.info, call.input)
       IN  call' = [call EXCEPT !.stage = "returned",
                                !.result = Arr(prepareColumns(call.info)),
                                !.heap = ran.heap,
                                !.refs = ran.refs]
    /\ UNCHANGED <<variant, relationshipName, parentSObjectTypeName,
                   dataVars, flagVars, frames,
                   moreLinkPending, events, completed, uncaught>>

\* prepareColumns is called a second time with the same metadata object
ColumnsPreparedAgain ==
    /\ call.stage = "returned"
    /\ LET ran == prepareColumnsOnHeap(call.heap, call.info, call.input)
       IN  call' = [call EXCEPT !.stage = "repeated",
                                !.heap = ran.heap,
                                !.again = ran.refs]
    /\ UNCHANGED <<variant, relationshipName, parentSObjectTypeName,
                   dataVars, flagVars, frames,
                   moreLinkPending, events, completed, uncaught>>

ColumnsNext == ColumnsPrepared \/ ColumnsPreparedAgain

SpecColumns == ColumnsInit /\ [][ColumnsNext]_vars

(***************************************************************************)
(* Spec: the component from construction on.  The wire adapters deliver    *)
(* data or an error to the handlers in any order and any number of times   *)
(* (MaxEvents deliveries in all); a page of records may arrive while       *)
(* earlier projections are still suspended (MaxInFlight at most).          *)
(***************************************************************************)
RecordPayloads == {[value |-> Str(s_P)]}

\* entries of data.relatedLists: two that match the relationship name "Cs"
\* in another case, one that does not, one without a relatedListId
sum_cS == [relatedListId |-> Str(<<"c", "S">>)]
sum_CS == [relatedListId |-> Str(<<"C", "S">>)]
sum_x == [relatedListId |-> Str(s_x)]
sum_noId == [relatedListId |-> Undefined]

SummaryPayloads ==
    {[relatedLists |-> Arr(q)] :
        q \in {<< >>, <<sum_x>>, <<sum_cS>>, <<sum_x, sum_cS>>,
               <<sum_cS, sum_CS>>, <<sum_CS, sum_cS>>, <<sum_noId, sum_x>>}}
        \cup {[relatedLists |-> Undefined]}

InfoPayloads ==
    {Info(Arr(<<RawColumn(s_N, "string", Null),
                RawColumn(s_A, "string", Str(s_AdotId))>>), Arr(<<Str(s_O)>>)),
     Info(Arr(<<RawColumn(s_M, "int", Null)>>), Arr(<<Str(s_O)>>)),
     Info(Arr(<<RawColumn(s_N, "string", Null)>>), Undefined),
     Info(Undefined, Arr(<<Str(s_O)>>))}

PagePayloads ==
    {Page(Arr(<<recFull, recNoTarget>>)), Page(Arr(<<recNoId>>)), Page(Arr(<< >>))}

\* what a wire adapter hands to its handler: data, an error, or neither
Deliveries(payloads) ==
    {[data |-> d, error |-> Undefined] : d \in payloads}
        \cup {[data |-> Undefined, error |-> ErrorPayload],
              [data |-> Undefined, error |-> Undefined]}

Init ==
    /\ variant \in Variants
    /\ relationshipName = Str(<<"C", "s">>)
    \* @api parentSObjectTypeName is set by the parent or left undefined; only
    \* generateMoreLink reads it
    /\ parentSObjectTypeName \in IF RequestsMoreLink(variant)
                                 THEN {Undefined, Str(s_O)}
                                 ELSE {Undefined}
    /\ FieldsAtConstruction
    /\ NothingRunning
    /\ call = Undefined

RecordArrives ==
    /\ events < MaxEvents
    /\ Len(moreLinkPending) < MaxInFlight
    /\ \E d \in Deliveries(RecordPayloads) : handleGetRecord(d.data, d.error)

ParentRecordArrives ==
    /\ events < MaxEvents
    /\ \E d \in Deliveries(RecordPayloads) : handleGetParentRecord(d.data, d.error)

SummariesArrive ==
    /\ events < MaxEvents
    /\ \E d \in Deliveries(SummaryPayloads) : handleGetRelatedListsInfo(d.data, d.error)

InfoArrives ==
    /\ events < MaxEvents
    /\ \E d \in Deliveries(InfoPayloads) : handleGetRelatedListInfo(d.data, d.error)

PageArrives ==
    /\ events < MaxEvents
    /\ Len(frames) < MaxInFlight
    /\ \E d \in Deliveries(PagePayloads), navThrows \in NavThrows :
           handleGetRelatedListRecords(d.data, d.error, navThrows)

MoreLinkFulfilled ==
    \E n \in 1..Len(moreLinkPending), link \in NavUrls : moreLinkFulfilled(n, link)

MoreLinkRejected == \E n \in 1..Len(moreLinkPending) : moreLinkRejected(n)

Next ==
    \/ RecordArrives
    \/ ParentRecordArrives
    \/ SummariesArrive
    \/ InfoArrives
    \/ PageArrives
    \/ MoreLinkFulfilled
    \/ MoreLinkRejected
    \/ NavigationAnswers
    \/ LinkResumes
    \/ ProjectionCompletes

Spec == Init /\ [][Next]_vars

(***************************************************************************)
(* SpecRefresh: Spec, and after the events of Spec one more metadata or    *)
(* records event for a component whose first load is complete.             *)
(***************************************************************************)
RefreshArrives ==
    /\ events = MaxEvents
    /\ dataLoaded
    /\ \/ \E d \in Deliveries(InfoPayloads) :
              handleGetRelatedListInfo(d.data, d.error)
       \/ \E d \in Deliveries(PagePayloads), navThrows \in NavThrows :
              handleGetRelatedListRecords(d.data, d.error, navThrows)

RefreshNext ==
    \/ RecordArrives
    \/ ParentRecordArrives
    \/ SummariesArrive
    \/ InfoArrives
    \/ PageArrives
    \/ MoreLinkFulfilled
    \/ MoreLinkRejected
    \/ NavigationAnswers
    \/ LinkResumes
    \/ ProjectionCompletes
    \/ RefreshArrives

SpecRefresh == Init /\ [][RefreshNext]_vars

(***************************************************************************)
(* Properties of the row projector (checked under SpecProject).            *)
(***************************************************************************)
\* the own keys of a row
Keys(row) == DOMAIN row.p

\* a projection has finished on an array of records with an array of columns
Projected ==
    /\ completed # Undefined
    /\ IsArray(completed.data.records)
    /\ IsArray(displayColumns)

\* the lookup cells of a finished projection: (record index, column index)
LookupCells(f) ==
    {<<i, j>> \in (1..Len(f.recs)) \X (1..MaxCols + 1) :
        /\ j <= Len(f.rowCols[i])
        /\ Truthy(f.rowCols[i][j].lookupId)}

\* the log entry of the link generation of cell (i, j)
EntryOf(f, i, j) == CHOOSE e \in {f.cells[n] : n \in 1..Len(f.cells)} : e.i = i /\ e.j = j

\* the value row i holds under the "-resourceUrl" key of column j
LinkValue(f, i, j) ==
    GetProp(f.records[i], f.rowCols[i][j].fieldApiName \o s_resourceUrl)

\* C1: the projector returns exactly one row per input record, in input
\* order, row i carrying the id of record i; zero records give zero rows.
C1_OneRowPerRecord ==
    Projected =>
        /\ IsArray(records)
        /\ Len(records.e) = Len(completed.data.records.e)
        /\ \A i \in 1..Len(records.e) :
               GetProp(records.e[i], k_id) = GetProp(completed.data.records.e[i], k_id)
        /\ (completed.data.records.e = << >> => records = Arr(<< >>))

\* C1 witness: two records with different ids were projected over at least
\* one column into two rows.
C1_Witness ==
    /\ Projected
    /\ Len(completed.data.records.e) = 2
    /\ GetProp(completed.data.records.e[1], k_id)
           # GetProp(completed.data.records.e[2], k_id)
    /\ Len(displayColumns.e) >= 1
    /\ Len(records.e) = 2

\* C2 as claimed: every row has as its key set exactly id together with the
\* fieldName of every column of the column set.
C2_KeysAreFieldNames ==
    Projected =>
        \A i \in 1..Len(records.e) :
            Keys(records.e[i])
                = {k_id} \cup {displayColumns.e[j].fieldName :
                                  j \in 1..Len(displayColumns.e)}

\* C2 as amended: every row has as its key set exactly id together with, for
\* every column of the displayColumns array iterated for that row, the plain
\* fieldApiName and the descriptor's fieldName (which is the same key for a
\* column that is no lookup and fieldApiName-resourceUrl for a lookup).
C2_KeysAreFieldAndLinkNames ==
    Projected =>
        \A i \in 1..Len(records.e) :
            Keys(records.e[i])
                = {k_id}
                  \cup {completed.rowCols[i][j].fieldApiName :
                           j \in 1..Len(completed.rowCols[i])}
                  \cup {completed.rowCols[i][j].fieldName :
                           j \in 1..Len(completed.rowCols[i])}

\* C2 witness: a row built from a plain column and a lookup column holds
\* four keys.
C2_Witness ==
    /\ Projected
    /\ Len(records.e) >= 1
    /\ \E j \in 1..Len(displayColumns.e) : Truthy(displayColumns.e[j].lookupId)
    /\ \E j \in 1..Len(displayColumns.e) : ~Truthy(displayColumns.e[j].lookupId)
    /\ Cardinality(Keys(records.e[1])) = 4

\* C3 as claimed: under a column's plain field key a row holds the field's
\* display value when the column's resolved type is textual ("string") and
\* the field's raw value, unchanged, otherwise.
C3_DisplayOrRawValue ==
    Projected =>
        \A i \in 1..Len(records.e) :
            \A j \in 1..Len(displayColumns.e) :
                LET field == displayColumns.e[j]
                    recordData == completed.data.records.e[i]
                IN  GetProp(records.e[i], field.fieldApiName)
                        = IF field.type = "string"
                          THEN getFieldDisplayValue(recordData, field.apiPath)
                          ELSE getFieldValue(recordData, field.apiPath)

\* C4: a link generation whose navigation call throws or rejects gives
\* undefined under that row's "-resourceUrl" key; no projection rejects;
\* every row is still produced, every lookup cell still has its link
\* generated, and every cell whose call resolved holds the service's answer.
C4_NavigationFailureIsLocal ==
    /\ "handleGetRelatedListRecords" \notin uncaught
    /\ Projected =>
           /\ Len(completed.records) = Len(completed.recs)
           /\ \A c \in LookupCells(completed) :
                  /\ \E n \in 1..Len(completed.cells) :
                         completed.cells[n].i = c[1] /\ completed.cells[n].j = c[2]
                  /\ LET e == EntryOf(completed, c[1], c[2])
                     IN  /\ e.how \in {"threw", "rejected"} =>
                                /\ e.p = [k |-> "fulfilled", v |-> Undefined]
                                /\ LinkValue(completed, c[1], c[2]) = Undefined
                         /\ e.how = "resolved" =>
                                /\ e.p.v \in NavUrls
                                /\ LinkValue(completed, c[1], c[2]) = e.p.v
           /\ \A i \in 1..Len(completed.records) :
                  \A j \in 1..Len(completed.rowCols[i]) :
                      completed.rowCols[i][j].fieldApiName \in Keys(completed.records[i])

\* C5: a link generation on a record whose lookup target cannot be resolved
\* (no field container, no such field, a null or missing value, a target
\* without id) makes no navigation call and settles with undefined, never with
\* a rejection; the row holds undefined under the "-resourceUrl" key and its
\* id and its other keys as any other row, while a row whose target resolves
\* holds the service's URL.
C5_UnresolvedTargetGivesUndefined ==
    /\ \A n \in 1..Len(frames) :
           \A m \in 1..Len(frames[n].cells) :
               frames[n].cells[m].requests = << >> =>
                   frames[n].cells[m].p = [k |-> "fulfilled", v |-> Undefined]
    /\ Projected =>
           \A c \in LookupCells(completed) :
               LET e == EntryOf(completed, c[1], c[2])
                   target == GetProp(
                                 LET fields == GetProp(completed.recs[c[1]], k_fields)
                                     node == IF Nullish(fields) THEN Undefined
                                             ELSE GetProp(fields, s_A)
                                 IN  IF Nullish(node) THEN Undefined
                                     ELSE GetProp(node, k_value),
                                 k_id)
               IN  /\ ~Truthy(target) =>
                          /\ e.requests = << >>
                          /\ e.p = [k |-> "fulfilled", v |-> Undefined]
                          /\ LinkValue(completed, c[1], c[2]) = Undefined
                   /\ (Truthy(target) /\ e.how = "resolved") =>
                          LinkValue(completed, c[1], c[2]) \in NavUrls
                   /\ GetProp(completed.records[c[1]], k_id)
                          = GetProp(completed.recs[c[1]], k_id)

\* C5 witness: of two records the first has a resolvable Account-like field
\* and the second has none; row 1 holds a URL, row 2 holds undefined, and
\* both hold the display value of the text column.
C5_Witness ==
    /\ Projected
    /\ completed.recs = <<recFull, recNoTarget>>
    /\ Len(completed.rowCols[1]) = 2 /\ Len(completed.rowCols[2]) = 2
    /\ completed.rowCols[1][1].fieldApiName = s_N
    /\ completed.rowCols[1][2].fieldApiName = s_A
    /\ completed.rowCols[2] = completed.rowCols[1]
    /\ LinkValue(completed, 1, 2) \in NavUrls
    /\ s_A \o s_resourceUrl \in Keys(completed.records[2])
    /\ LinkValue(completed, 2, 2) = Undefined
    /\ GetProp(completed.records[1], s_N) = Str(s_X)
    /\ GetProp(completed.records[2], s_N) = Str(s_X)

(***************************************************************************)
(* Properties of generateRecordUrl (checked under SpecUrl).                *)
(***************************************************************************)
\* the invocation has run to its await or to its return
Invoked == call.stage # "start"

\* the invocation has a lookup path that is a string
HasPath == call.field.lookupId.t = "string"

\* the descent the specification describes: from the record's field
\* container, one dot-separated segment at a time, reading the value
\* sub-property of the current node; undefined where a node is missing
RECURSIVE DescendByDots(_, _)
DescendByDots(node, segments) ==
    IF segments = << >> THEN node
    ELSE IF Nullish(node) THEN Undefined
    ELSE LET wrapper == GetProp(node, Head(segments))
         IN  DescendByDots(IF Nullish(wrapper) THEN Undefined
                           ELSE GetProp(wrapper, k_value),
                           Tail(segments))

\* the dot-separated segments of a path without its trailing ".Id"
DotSegments(path) ==
    Split(IF EndsWith(path, s_DotId) THEN SubSeq(path, 1, Len(path) - 3)
          ELSE path, s_Dot)

\* the id of the node the described descent reaches
DotTargetId(recordData, path) ==
    LET node == DescendByDots(GetProp(recordData, k_fields), DotSegments(path))
    IN  IF Nullish(node) THEN Undefined ELSE GetProp(node, k_id)

\* C6 as claimed: for a lookup path of two or more dot-separated segments
\* the link target is the id of the node reached by descending the record's
\* field container segment by segment, the path being split on ".".
C6_DescendsDotSegments ==
    (/\ Invoked
     /\ HasPath
     /\ Len(DotSegments(call.field.lookupId.s)) >= 2
     /\ Truthy(DotTargetId(call.recordData, call.field.lookupId.s)))
        => call.requests
               = <<recordPageReference(
                      DotTargetId(call.recordData, call.field.lookupId.s))>>

\* the request of an invocation on the same record with the path path
RequestsWith(path) ==
    linkStart(variant, call.recordData, [lookupId |-> Str(path)], "returns").requests

\* C7 as claimed: for every path P other than "Id", link generation with P
\* and with P + ".Id" hands the same target to the navigation service, or
\* none in both cases.
C7_SuffixIsOptional ==
    (Invoked /\ HasPath /\ call.field.lookupId.s # s_Id)
        => call.requests = RequestsWith(call.field.lookupId.s \o s_DotId)

\* C7 as amended: for every non-empty path P other than "Id" that does not
\* itself end in ".Id", link generation with P and with P + ".Id" hands the
\* same target to the navigation service, or none in both cases.
C7_SuffixIsOptionalOnBarePaths ==
    (/\ Invoked
     /\ HasPath
     /\ call.field.lookupId.s # s_Id
     /\ call.field.lookupId.s # s_empty
     /\ ~EndsWith(call.field.lookupId.s, s_DotId))
        => call.requests = RequestsWith(call.field.lookupId.s \o s_DotId)

\* C7 witness: the path "A" on a record whose field A holds a target gave
\* the request that "A.Id" gives.
C7_Witness ==
    /\ Invoked
    /\ call.field.lookupId = Str(s_A)
    /\ call.requests = <<recordPageReference(Str(s_t))>>
    /\ RequestsWith(s_AdotId) = call.requests

\* C8: with the lookup path "Id" the target of the link is the record's own
\* id, whatever the record's fields hold: the request names recordData.id,
\* and no request is made when the record has no id.
C8_IdMeansOwnRecord ==
    (Invoked /\ call.field.lookupId = Str(s_Id))
        => call.requests
               = IF Truthy(GetProp(call.recordData, k_id))
                 THEN <<recordPageReference(GetProp(call.recordData, k_id))>>
                 ELSE << >>

\* C8 witness: a record with an id and a field A that holds another target
\* was linked to by its own id.
C8_Witness ==
    /\ Invoked
    /\ call.field.lookupId = Str(s_Id)
    /\ Truthy(DotTargetId(call.recordData, s_A))
    /\ DotTargetId(call.recordData, s_A) # GetProp(call.recordData, k_id)
    /\ call.requests = <<recordPageReference(GetProp(call.recordData, k_id))>>

\* C9: an invocation calls the navigation service at most once, only for a
\* lookup column and with a truthy record id, the request being the
\* record-page intent with actionName view; the service's answer is returned
\* unchanged; without a call (a column that is no lookup, a resolution that
\* failed, a falsy identifier) the result is undefined.
C9_OneGuardedRequest ==
    /\ Len(call.requests) <= 1
    /\ \A n \in 1..Len(call.requests) :
           /\ Truthy(call.field.lookupId)
           /\ call.requests[n].type = "standard__recordPage"
           /\ call.requests[n].attributes.actionName = "view"
           /\ Truthy(call.requests[n].attributes.recordId)
    /\ call.stage = "settled" =>
           /\ call.how = "resolved" =>
                  call.p = [k |-> "fulfilled", v |-> call.answer.url]
           /\ call.requests = << >> =>
                  call.p = [k |-> "fulfilled", v |-> Undefined]
    /\ (Invoked /\ ~Truthy(call.field.lookupId)) => call.requests = << >>

\* C9 witness: one request was made and the URL the service answered with
\* is the result.
C9_Witness ==
    /\ call.stage = "settled"
    /\ Len(call.requests) = 1
    /\ call.how = "resolved"
    /\ call.p = [k |-> "fulfilled", v |-> call.answer.url]
    /\ call.answer.url \in NavUrls

(***************************************************************************)
(* Properties of prepareColumns (checked under SpecColumns).               *)
(***************************************************************************)
\* C10: for a metadata response whose displayColumns and objectApiNames are
\* arrays, prepareColumns returns one descriptor per entry, in the entries'
\* order, each with apiPath = objectApiNames[0] + "." + fieldApiName.
C10_OneDescriptorPerColumn ==
    (/\ call.stage = "returned"
     /\ call.info \notin {Undefined, Null}
     /\ IsArray(call.info.displayColumns)
     /\ IsArray(call.info.objectApiNames))
        => /\ Len(call.result.e) = Len(call.info.displayColumns.e)
           /\ \A n \in 1..Len(call.result.e) :
                  /\ call.result.e[n].fieldApiName
                         = call.info.displayColumns.e[n].fieldApiName
                  /\ call.result.e[n].apiPath
                         = (IF call.info.objectApiNames.e = << >>
                            THEN s_undefined
                            ELSE Head(call.info.objectApiNames.e).s)
                           \o s_Dot
                           \o call.info.displayColumns.e[n].fieldApiName

\* C10 witness: two different columns and two object names gave two
\* descriptors.
C10_Witness ==
    /\ call.stage = "returned"
    /\ call.info \notin {Undefined, Null}
    /\ IsArray(call.info.displayColumns)
    /\ call.info.objectApiNames = Arr(<<Str(s_O), Str(s_P)>>)
    /\ Len(call.info.displayColumns.e) = 2
    /\ call.info.displayColumns.e[1].fieldApiName
           # call.info.displayColumns.e[2].fieldApiName
    /\ Len(call.result.e) = 2

\* C11: the resolved type of a descriptor is "url" if the column has a
\* lookupId, whatever its raw type; otherwise "date-local" for datetime,
\* "string" for picklist, and the raw dataType for every other raw type.
C11_TypeResolutionOrder ==
    (call.stage = "returned")
        => \A n \in 1..Len(call.result.e) :
               LET col == call.info.displayColumns.e[n]
                   type == call.result.e[n].type
               IN  /\ Truthy(col.lookupId) => type = "url"
                   /\ (~Truthy(col.lookupId) /\ col.dataType = "datetime")
                          => type = "date-local"
                   /\ (~Truthy(col.lookupId) /\ col.dataType = "picklist")
                          => type = "string"
                   /\ (~Truthy(col.lookupId)
                       /\ col.dataType \notin {"datetime", "picklist"})
                          => type = col.dataType

\* C11 witness: a datetime lookup column resolved to "url" next to a plain
\* datetime column that resolved to "date-local".
C11_Witness ==
    /\ call.stage = "returned"
    /\ Len(call.result.e) = 2
    /\ call.info.displayColumns.e[1].dataType = "datetime"
    /\ Truthy(call.info.displayColumns.e[1].lookupId)
    /\ call.result.e[1].type = "url"
    /\ call.info.displayColumns.e[2].dataType = "datetime"
    /\ ~Truthy(call.info.displayColumns.e[2].lookupId)
    /\ call.result.e[2].type = "date-local"

\* C12: a descriptor of a lookup column has the key fieldApiName +
\* "-resourceUrl" and label and tooltip bound to the plain fieldApiName; a
\* descriptor of any other column has the plain fieldApiName as its key and
\* no label or tooltip binding.
C12_LookupKeyAndBindings ==
    (call.stage = "returned")
        => \A n \in 1..Len(call.result.e) :
               LET col == call.info.displayColumns.e[n]
                   d == call.result.e[n]
               IN  IF Truthy(col.lookupId)
                   THEN /\ d.fieldName = col.fieldApiName \o s_resourceUrl
                        /\ d.typeAttributes.label.fieldName = col.fieldApiName
                        /\ d.typeAttributes.tooltip.fieldName = col.fieldApiName
                   ELSE /\ d.fieldName = col.fieldApiName
                        /\ d.typeAttributes = Undefined

\* C12 witness: a lookup column and a plain column were built into a
\* descriptor with bindings and one without.
C12_Witness ==
    /\ call.stage = "returned"
    /\ Len(call.result.e) = 2
    /\ Truthy(call.info.displayColumns.e[1].lookupId)
    /\ call.result.e[1].fieldName = s_A \o s_resourceUrl
    /\ call.result.e[1].typeAttributes.label.fieldName = s_A
    /\ ~Truthy(call.info.displayColumns.e[2].lookupId)
    /\ call.result.e[2].fieldName = s_N
    /\ call.result.e[2].typeAttributes = Undefined

\* the metadata value lacks an array of displayColumns or of objectApiNames
MalformedInfo(info) ==
    \/ info \in {Undefined, Null}
    \/ info.displayColumns.t # "array"
    \/ info.objectApiNames.t # "array"

\* C13: for a metadata value that is null or undefined, or whose
\* displayColumns or objectApiNames is missing or not an array,
\* prepareColumns returns an empty array.
C13_MalformedInfoGivesNoColumns ==
    (call.stage = "returned" /\ MalformedInfo(call.info))
        => call.result = Arr(<< >>)

\* C13 witness: prepareColumns returned an empty array for two columns
\* delivered without object names.
C13_Witness ==
    /\ call.stage = "returned"
    /\ call.info \notin {Undefined, Null}
    /\ IsArray(call.info.displayColumns)
    /\ Len(call.info.displayColumns.e) = 2
    /\ call.info.objectApiNames = Undefined
    /\ call.result = Arr(<< >>)

\* C14: a projection whose records argument is not an array, or that runs
\* while displayColumns is not an array, gives an empty row array, does not
\* throw and calls the navigation service for no cell; so a page of records
\* that arrives before any metadata is projected to zero rows.
C14_NoArrayNoRows ==
    /\ \A n \in 1..Len(frames) :
           frames[n].guarded =>
               /\ frames[n].wait.k = "rows"
               /\ frames[n].records = << >>
               /\ frames[n].cells = << >>
    /\ (/\ completed # Undefined
        /\ (~IsArray(completed.data.records) \/ ~IsArray(displayColumns)))
           => /\ records = Arr(<< >>)
              /\ completed.cells = << >>
              /\ "handleGetRelatedListRecords" \notin uncaught

\* C14 witness: two records that arrived before any metadata were projected
\* to zero rows.
C14_Witness ==
    /\ completed # Undefined
    /\ displayColumns = Undefined
    /\ IsArray(completed.data.records)
    /\ Len(completed.data.records.e) = 2
    /\ records = Arr(<< >>)

(***************************************************************************)
(* Properties of the wire handlers (checked under Spec).                   *)
(***************************************************************************)
\* the handler invoked last
Delivered(handler) == call # Undefined /\ call.op = handler

\* the last event carried data / carried an error and no data
WithData == call.data # Undefined
WithError == call.data = Undefined /\ call.error # Undefined

\* C15 as claimed: handleGetRelatedListInfo never throws on a success
\* payload whose displayColumns or objectApiNames is missing or not an
\* array: displayColumns becomes the empty array and the handler completes
\* (in the components with flags, relatedListDetailLoaded is set).
C15_MalformedInfoDegrades ==
    /\ "handleGetRelatedListInfo" \notin uncaught
    /\ (Delivered("handleGetRelatedListInfo") /\ WithData /\ MalformedInfo(call.data))
           => /\ displayColumns = Arr(<< >>)
              /\ HasFlags(variant) => relatedListDetailLoaded

\* C16 as claimed: in the components that have a hasError flag, an error
\* payload from any upstream service (record, parent record, summary,
\* metadata, records) sets hasError.
C16_ErrorSetsHasError ==
    (HasFlags(variant) /\ call # Undefined /\ WithError) => hasError

\* the loaded flag of the data source a handler serves
loadedFlagOf(handler) ==
    CASE handler = "handleGetRecord" -> recordLoaded
      [] handler = "handleGetParentRecord" -> parentRecordLoaded
      [] handler = "handleGetRelatedListsInfo" -> relatedListSummaryLoaded
      [] handler = "handleGetRelatedListInfo" -> relatedListDetailLoaded
      [] handler = "handleGetRelatedListRecords" -> relatedListRecordsLoaded

\* C17 as claimed: in the components that have loaded flags, after an error
\* payload from an upstream service the loaded flag of that data source is
\* true.
C17_ErrorMarksLoaded ==
    (HasFlags(variant) /\ call # Undefined /\ WithError) => loadedFlagOf(call.op)

\* C18: a wire event that carries an error and no data leaves the loaded
\* data as they were: displayColumns, relatedListFieldNames,
\* relatedListSummary, page, records, recordTypeId, parentRecordId (and
\* parentRecordTypeId and moreLink) keep their values.
C18_ErrorKeepsData ==
    [][(events' = events + 1 /\ call'.data = Undefined /\ call'.error # Undefined)
           => dataVars' = dataVars]_vars

\* C18 witness: columns and a page were loaded, then an error arrived, and
\* the columns and the page are still there.
C18_Witness ==
    /\ call # Undefined
    /\ WithError
    /\ Delivered("handleGetRelatedListInfo")
    /\ IsArray(displayColumns)
    /\ Len(displayColumns.e) = 2
    /\ IsArray(relatedListFieldNames)
    /\ page # Undefined

\* C19 as claimed: in the sibling component a failure of the navigation
\* service while the "view all" link is generated does not get past the
\* caller: handleGetRecord completes and no rejection is left unhandled.
C19_MoreLinkFailureContained ==
    /\ "handleGetRecord" \notin uncaught
    /\ "generateMoreLink" \notin uncaught

\* two strings are equal up to the case of their letters
EqualIgnoringCase(a, b) ==
    /\ Len(a) = Len(b)
    /\ \A n \in 1..Len(a) :
           \/ a[n] = b[n]
           \/ \E u \in 1..Len(UpperCase) :
                  {a[n], b[n]} = {UpperCase[u], LowerCase[u]}

\* the positions of the entries whose relatedListId is name up to case
MatchingEntries(relatedLists, name) ==
    {n \in 1..Len(relatedLists) :
        /\ relatedLists[n].relatedListId.t = "string"
        /\ EqualIgnoringCase(relatedLists[n].relatedListId.s, name)}

\* C20: after a summary success relatedListSummary is the first entry of
\* data.relatedLists whose relatedListId equals relationshipName up to
\* letter case, and undefined when there is none, whatever was selected
\* before.
C20_SummaryIsFirstMatch ==
    (/\ Delivered("handleGetRelatedListsInfo")
     /\ WithData
     /\ IsArray(call.data.relatedLists))
        => LET lists == call.data.relatedLists.e
               hits == MatchingEntries(lists, relationshipName.s)
           IN  IF hits = {}
               THEN relatedListSummary = Undefined
               ELSE \E n \in hits :
                        /\ \A m \in hits : n <= m
                        /\ relatedListSummary = lists[n]

\* C20 witness: of a non-matching entry and the entry "cS", the entry "cS"
\* was selected for the relationship name "Cs".
C20_Witness ==
    /\ Delivered("handleGetRelatedListsInfo")
    /\ WithData
    /\ call.data.relatedLists = Arr(<<sum_x, sum_cS>>)
    /\ relationshipName = Str(<<"C", "s">>)
    /\ relatedListSummary = sum_cS

(***************************************************************************)
(* Properties of prepareColumns on object identities (SpecColumns).        *)
(***************************************************************************)
\* the objects at the addresses refs
ObjectsAt(refs) == [n \in 1..Len(refs) |-> call.heap[refs[n]]]

\* the addresses in refs
AddressesOf(refs) == {refs[n] : n \in 1..Len(refs)}

\* C21: after any call of prepareColumns the displayColumns array has the
\* entries it had and every entry has the properties and values it had
\* before the call.
C21_InputUnchanged ==
    (call.stage # "start")
        => /\ call.input = entryAddresses(call.info)
           /\ ObjectsAt(call.input) = entryObjects(call.info)

\* C21 witness: two columns, one a lookup, were built into descriptors and
\* the two entries are as they were.
C21_Witness ==
    /\ call.stage = "returned"
    /\ Len(call.refs) = 2
    /\ Truthy(call.heap[call.input[1]].lookupId)
    /\ call.heap[call.refs[1]].fieldName
           = call.heap[call.input[1]].fieldApiName \o s_resourceUrl
    /\ DOMAIN call.heap[call.input[1]] = {"fieldApiName", "dataType", "lookupId"}

\* C22: two calls of prepareColumns on the same metadata give descriptor
\* sequences with the same length, order and property values, and no
\* descriptor object of one call is an object of the other call or of the
\* input.
C22_TwiceEqualNeverShared ==
    (call.stage = "repeated")
        => /\ ObjectsAt(call.refs) = ObjectsAt(call.again)
           /\ ObjectsAt(call.refs) = call.result.e
           /\ AddressesOf(call.refs) \cap AddressesOf(call.again) = {}
           /\ AddressesOf(call.refs) \cap AddressesOf(call.input) = {}
           /\ AddressesOf(call.again) \cap AddressesOf(call.input) = {}

\* C22 witness: two calls on two columns gave four descriptor objects.
C22_Witness ==
    /\ call.stage = "repeated"
    /\ Len(call.refs) = 2
    /\ Len(call.again) = 2
    /\ Cardinality(AddressesOf(call.refs) \cup AddressesOf(call.again)) = 4
    /\ ObjectsAt(call.refs) = ObjectsAt(call.again)

(***************************************************************************)
(* Properties of overlapping refreshes (checked under Spec).               *)
(***************************************************************************)
\* C23: a projection that completes assigns its rows to records whether or
\* not its page is still the current one: records always holds the rows of
\* the projection that completed last, so a projection of an older page that
\* completes after the projection of a newer page overwrites the newer rows.
C23_LastCompletionWins ==
    completed # Undefined => records = Arr(completed.records)

\* C23 witness: page r1 was delivered, page r2 was delivered while r1's
\* projection awaited the navigation service, r2's projection completed,
\* then r1's projection completed: records holds r1's rows, page holds r2.
C23_Witness ==
    /\ completed # Undefined
    /\ frames = << >>
    /\ "handleGetRelatedListRecords" \notin uncaught
    /\ page # Undefined
    /\ page # completed.data
    /\ \E n \in 1..Len(completed.cells) :
           completed.cells[n].how \in {"resolved", "rejected"}
    /\ Len(completed.records) = Len(completed.data.records.e)
    /\ Len(completed.records) > 0
    /\ records = Arr(completed.records)

(***************************************************************************)
(* Properties of the order of link generations (checked under              *)
(* SpecProject).                                                           *)
(***************************************************************************)
\* position (i, j) of the loops comes before position (k, l)
Before(i, j, k, l) == i < k \/ (i = k /\ j < l)

\* cell (i, j) has an entry in the cell log of f
Logged(f, i, j) == \E n \in 1..Len(f.cells) : f.cells[n].i = i /\ f.cells[n].j = j

\* the link generations of execution f so far were made one after another
\* in the order of the loops
SequentialLinks(f) ==
    /\ \A m, n \in 1..Len(f.cells) :
           m < n => Before(f.cells[m].i, f.cells[m].j, f.cells[n].i, f.cells[n].j)
    /\ \A n \in 1..Len(f.cells) :
           /\ Len(f.cells[n].requests) <= 1
           /\ f.cells[n].p.k \in {"fulfilled", "rejected"}
    /\ Len(f.records) = f.i - 1
    /\ Len(f.rowCols) = Len(f.records)
    /\ \A r \in 1..Len(f.records) :
           \A c \in 1..Len(f.rowCols[r]) :
               Truthy(f.rowCols[r][c].lookupId) <=> Logged(f, r, c)
    /\ f.i <= Len(f.recs) =>
           /\ \A c \in 1..Len(f.cols) :
                  c < f.j => (Truthy(f.cols[c].lookupId) <=> Logged(f, f.i, c))
           /\ \A n \in 1..Len(f.cells) :
                  \/ Before(f.cells[n].i, f.cells[n].j, f.i, f.j)
                  \/ /\ f.wait.k \in {"settled", "failed"}
                     /\ n = Len(f.cells)
                     /\ f.cells[n].i = f.i /\ f.cells[n].j = f.j
    /\ f.wait.k = "nav" =>
           /\ f.i <= Len(f.recs) /\ f.j <= Len(f.cols)
           /\ Truthy(f.cols[f.j].lookupId)
           /\ ~Logged(f, f.i, f.j)
    /\ f.wait.k = "settled" =>
           /\ f.i <= Len(f.recs) /\ f.j <= Len(f.cols)
           /\ f.cells # << >>
           /\ f.cells[Len(f.cells)].p = f.wait.p
    /\ f.wait.k = "failed" =>
           /\ f.i <= Len(f.recs) /\ f.j <= Len(f.cols)
           /\ f.cells # << >>
           /\ f.cells[Len(f.cells)].p.k = "rejected"
    /\ f.wait.k = "rows" => f.i = Len(f.recs) + 1

\* C24: within one projection the navigation-service calls are issued one
\* at a time in the order of (record index, column index): the call of a
\* lookup cell is issued only after every earlier lookup cell has settled, at
\* most one call is outstanding, and a row is appended only after all of its
\* lookup cells have settled.
C24_LinksGeneratedInOrder ==
    /\ \A n \in 1..Len(frames) : SequentialLinks(frames[n])
    /\ completed # Undefined => SequentialLinks(completed)

\* C24 witness: two records were projected over two lookup columns; four
\* navigation calls were made and answered, in the order (1,1), (1,2),
\* (2,1), (2,2).
C24_Witness ==
    /\ completed # Undefined
    /\ Len(completed.records) = 2
    /\ Len(completed.cells) = 4
    /\ \A n \in 1..4 :
           /\ Len(completed.cells[n].requests) = 1
           /\ completed.cells[n].how \in {"resolved", "rejected"}
    /\ <<completed.cells[1].i, completed.cells[1].j>> = <<1, 1>>
    /\ <<completed.cells[2].i, completed.cells[2].j>> = <<1, 2>>
    /\ <<completed.cells[3].i, completed.cells[3].j>> = <<2, 1>>
    /\ <<completed.cells[4].i, completed.cells[4].j>> = <<2, 2>>

(***************************************************************************)
(* Properties of a projection's termination (checked under                 *)
(* SpecProjectFair).                                                       *)
(***************************************************************************)
\* a projection has completed: its rows are this.records and, where the
\* component has the flag, relatedListRecordsLoaded is set
ProjectionDone ==
    /\ frames = << >>
    /\ completed # Undefined
    /\ records = Arr(completed.records)
    /\ HasFlags(variant) => relatedListRecordsLoaded

\* while no projection has completed, nothing of one is visible
NothingBeforeCompletion ==
    /\ completed = Undefined =>
           /\ records = Undefined
           /\ ~relatedListRecordsLoaded
           /\ ~dataLoaded
    /\ completed # Undefined =>
           /\ completed.wait.k = "rows"
           /\ \A c \in LookupCells(completed) : Logged(completed, c[1], c[2])

\* an execution parked at a navigation call leaves that position only by
\* the settlement of the call
ParkedUntilSettled ==
    \A n \in 1..Len(frames) :
        frames[n].wait.k = "nav" =>
            \/ \E answer \in NavAnswers : navigationSettles(n, answer)
            \/ \E m \in {n - 1, n} \cap (1..Len(frames')) :
                   frames'[m] = frames[n]

\* C25: a projection started by a records success eventually completes
\* (records is assigned and relatedListRecordsLoaded becomes true) when every
\* navigation call it makes eventually settles; a projection whose call has
\* not settled stays at that call, so that it never completes while the call
\* is outstanding: records is not assigned from it, no later cell of it is
\* processed, and on a first load relatedListRecordsLoaded and dataLoaded
\* stay false.
C25_CompletesIffCallsSettle ==
    /\ [](frames # << >> => <>ProjectionDone)
    /\ []NothingBeforeCompletion
    /\ [][ParkedUntilSettled]_vars

(***************************************************************************)
(* Properties of the field-name list (checked under Spec).                 *)
(***************************************************************************)
\* the last wire event was a metadata success
MetadataSucceeded ==
    /\ Delivered("handleGetRelatedListInfo")
    /\ WithData
    /\ IsArray(displayColumns)

\* the apiPath values of the descriptors, in descriptor order
DescriptorPaths ==
    [n \in 1..Len(displayColumns.e) |-> Str(displayColumns.e[n].apiPath)]

\* C26: after a metadata success relatedListFieldNames is the sequence of
\* the apiPath values of displayColumns, in descriptor order, one entry per
\* descriptor and no other entry, in every component.
C26_FieldNamesAreApiPaths ==
    MetadataSucceeded => relatedListFieldNames = Arr(DescriptorPaths)

(***************************************************************************)
(* Properties of a metadata refresh during a projection (checked under     *)
(* Spec).                                                                  *)
(***************************************************************************)
\* C27 as claimed: under every interleaving of metadata successes with a
\* projection in flight, all rows of an array assigned to this.records were
\* built from one and the same displayColumns array, so that all rows of one
\* result have the same key set.
C27_RowsShareColumns ==
    (completed # Undefined /\ records = Arr(completed.records)) =>
        \A i, k \in 1..Len(completed.records) :
            /\ completed.rowCols[i] = completed.rowCols[k]
            /\ Keys(completed.records[i]) = Keys(completed.records[k])

(***************************************************************************)
(* Properties of the flags over time (checked under SpecRefresh).          *)
(***************************************************************************)
\* no flag that is set is cleared by this step
FlagsKept ==
    /\ hasError => hasError'
    /\ recordLoaded => recordLoaded'
    /\ parentRecordLoaded => parentRecordLoaded'
    /\ relatedListSummaryLoaded => relatedListSummaryLoaded'
    /\ relatedListDetailLoaded => relatedListDetailLoaded'
    /\ relatedListRecordsLoaded => relatedListRecordsLoaded'
    /\ dataLoaded => dataLoaded'

\* C28: hasError, recordLoaded, parentRecordLoaded, relatedListSummaryLoaded,
\* relatedListDetailLoaded and relatedListRecordsLoaded only ever change from
\* false to true: hasError is not cleared by a later success, and dataLoaded,
\* once true, stays true while a later refresh is fetched or its projection
\* is in flight.
C28_FlagsOnlyRise == [][FlagsKept]_vars

\* C28 witness: the first load is complete and the projection of a refreshed
\* page awaits the navigation service; dataLoaded is true.
C28_Witness ==
    /\ dataLoaded
    /\ completed # Undefined
    /\ Delivered("handleGetRelatedListRecords") /\ WithData
    /\ page # completed.data
    /\ frames # << >>
    /\ frames[1].data = page
    /\ frames[1].wait.k = "nav"
====
